---- MODULE Spec2Model ----
(***************************************************************************)
(* Pikamoon NFT allocator (src/allocator.py): the pool builder, the        *)
(* distributor, the validator and the run of main() around them.           *)
(*                                                                         *)
(* Strings are represented by naturals: asset addresses, wallet addresses  *)
(* and rarity labels are numbers whose order stands for Python's string    *)
(* order; the rarity None of an unlabeled asset is 0.  Percentages are     *)
(* integers.  A Python dict is a sequence of (key, value) records with     *)
(* pairwise distinct keys, in insertion order.                             *)
(***************************************************************************)
EXTENDS Integers, Sequences, FiniteSets, TLC

VARIABLES pc, seed, rng, seedings, shuffles, nft_assets, rarity_percentages,
          eligible_wallets, nft_pool, allocations, valid, saved, exit_site,
          verdict

vars == <<pc, seed, rng, seedings, shuffles, nft_assets, rarity_percentages,
          eligible_wallets, nft_pool, allocations, valid, saved, exit_site,
          verdict>>

(***************************************************************************)
(* Bounds of the model.                                                    *)
(***************************************************************************)
\* longest asset list
MaxItems == 3
\* largest NFT count a wallet asks for
MaxCount == 2

\* rarity labels an asset file may carry, and labels of a percentage table
AssetRarities == {1, 2}
TableRarities == {1, 2, 3}
\* percentages of a table
Percentages == {50, 100}
\* seeds of config.json
Seeds == {1, 2}
\* wallet addresses
Wallets == {1, 2, 3}
\* states the generator may hold when the run starts
PriorStates == {0, 7}

None == 0

(***************************************************************************)
(* Small helpers for sequences.                                            *)
(***************************************************************************)
Min(a, b) == IF a < b THEN a ELSE b

RECURSIVE Flatten(_)
Flatten(ss) == IF ss = <<>> THEN <<>> ELSE Head(ss) \o Flatten(Tail(ss))

NoDuplicates(s) == \A i, j \in DOMAIN s : i # j => s[i] # s[j]

Swap(x, i, j) == [x EXCEPT ![i] = x[j], ![j] = x[i]]

(***************************************************************************)
(* The process-wide generator of Python's random module.  The Mersenne     *)
(* Twister is replaced by a full-period linear congruential generator of   *)
(* RngBits bits; getrandbits, _randbelow and shuffle are computed on it    *)
(* the way the library computes them.                                      *)
(***************************************************************************)
RngBits == 4
RngMod == 16
RngStates == 0 .. (RngMod - 1)

RngStep(s) == (5 * s + 3) % RngMod

\* random.seed(seed): the state is a function of the seed alone
SeedState(sd) == (11 * sd + 2) % RngMod

RECURSIVE Pow2(_)
Pow2(k) == IF k = 0 THEN 1 ELSE 2 * Pow2(k - 1)

RECURSIVE BitLength(_)
BitLength(n) == IF n = 0 THEN 0 ELSE 1 + BitLength(n \div 2)

\* getrandbits(k): the k high bits of the next state
GetRandBits(s, k) ==
    LET t == RngStep(s)
    IN [val |-> t \div Pow2(RngBits - k), rng |-> t]

\* _randbelow(n): rejection sampling over getrandbits(n.bit_length())
RECURSIVE RandBelow(_, _)
RandBelow(s, n) ==
    LET r == GetRandBits(s, BitLength(n))
    IN IF r.val < n THEN r ELSE RandBelow(r.rng, n)

\* random.shuffle(x): for i in reversed(range(1, len(x))): j = randbelow(i + 1);
\* x[i], x[j] = x[j], x[i].  Positions are 1-based here.
RECURSIVE ShuffleFrom(_, _, _)
ShuffleFrom(s, x, i) ==
    IF i < 2 THEN [list |-> x, rng |-> s]
    ELSE LET r == RandBelow(s, i)
         IN ShuffleFrom(r.rng, Swap(x, i, r.val + 1), i - 1)

Shuffle(s, x) == ShuffleFrom(s, x, Len(x))

(***************************************************************************)
(* NFTAllocator.generate_nft_pool                                          *)
(***************************************************************************)
NFT(a, r) == [asset |-> a, rarity |-> r]

\* rarity_percentages: None, or a dict from rarity label to percentage
NoTable == [present |-> FALSE, table |-> <<>>]
Table(t) == [present |-> TRUE, table |-> t]

\* "not rarity_percentages": None and the empty dict are both falsy
Falsy(p) == ~p.present \/ p.table = <<>>

\* how many assets carry a rarity
PreAssignedRarities(assets) == SelectSeq(assets, LAMBDA it : it.rarity # None)

\* mutant: the pairs are walked in the dict's insertion order
Sorted_InsertionOrder(s) == s

\* sorted(d.items()) for a dict d given as a sequence of [key, val] records:
\* the keys are pairwise distinct, so the pairs are ordered by key
RECURSIVE InsertSorted(_, _)
InsertSorted(e, s) ==
    IF s = <<>> THEN <<e>>
    ELSE IF e.key < Head(s).key THEN <<e>> \o s
         ELSE <<Head(s)>> \o InsertSorted(e, Tail(s))

RECURSIVE Sorted(_)
Sorted(s) ==
    IF s = <<>> THEN <<>>
    ELSE InsertSorted(Head(s), Sorted(Tail(s)))

\* mutant: the last rarity is computed from its percentage like the others
RECURSIVE RarityCountsFrom_NoRemainder(_, _, _, _)
RarityCountsFrom_NoRemainder(sorted_rarities, i, total_nfts, remaining_nfts) ==
    IF i > Len(sorted_rarities) THEN <<>>
    ELSE LET e == sorted_rarities[i]
             count == (total_nfts * e.val) \div 100
         IN <<[key |-> e.key, val |-> count]>>
            \o RarityCountsFrom_NoRemainder(sorted_rarities, i + 1, total_nfts,
                                            remaining_nfts - count)

\* mutant: the counts are rounded up instead of truncated
RECURSIVE RarityCountsFrom_RoundUp(_, _, _, _)
RarityCountsFrom_RoundUp(sorted_rarities, i, total_nfts, remaining_nfts) ==
    IF i > Len(sorted_rarities) THEN <<>>
    ELSE LET e == sorted_rarities[i]
             count == IF i = Len(sorted_rarities)
                      THEN remaining_nfts
                      ELSE (total_nfts * e.val + 99) \div 100
             rest == IF i = Len(sorted_rarities)
                     THEN remaining_nfts
                     ELSE remaining_nfts - count
         IN <<[key |-> e.key, val |-> count]>>
            \o RarityCountsFrom_RoundUp(sorted_rarities, i + 1, total_nfts, rest)

\* the loop over enumerate(sorted_rarities): every rarity but the last gets
\* int(total_nfts * percentage / 100), the last gets remaining_nfts
RECURSIVE RarityCountsFrom(_, _, _, _)
RarityCountsFrom(sorted_rarities, i, total_nfts, remaining_nfts) ==
    IF i > Len(sorted_rarities) THEN <<>>
    ELSE LET e == sorted_rarities[i]
             count == IF i = Len(sorted_rarities)
                      THEN remaining_nfts
                      ELSE (total_nfts * e.val) \div 100
             rest == IF i = Len(sorted_rarities)
                     THEN remaining_nfts
                     ELSE remaining_nfts - count
         IN <<[key |-> e.key, val |-> count]>>
            \o RarityCountsFrom(sorted_rarities, i + 1, total_nfts, rest)

RarityCounts(p, total_nfts) ==
    RarityCountsFrom(Sorted(p.table), 1, total_nfts, total_nfts)

\* for _ in range(count): if asset_index < len(asset_addresses): append, advance
RECURSIVE TakeAssets(_, _, _, _)
TakeAssets(asset_addresses, asset_index, rarity, count) ==
    IF count <= 0 \/ asset_index >= Len(asset_addresses) THEN <<>>
    ELSE <<NFT(asset_addresses[asset_index + 1], rarity)>>
         \o TakeAssets(asset_addresses, asset_index + 1, rarity, count - 1)

\* mutant: asset_index starts over for every rarity
RECURSIVE AssignPairs_NoAdvance(_, _, _)
AssignPairs_NoAdvance(rarity_counts, asset_addresses, asset_index) ==
    IF rarity_counts = <<>> THEN <<>>
    ELSE LET took == TakeAssets(asset_addresses, asset_index,
                                Head(rarity_counts).key, Head(rarity_counts).val)
         IN took \o AssignPairs_NoAdvance(Tail(rarity_counts), asset_addresses,
                                          asset_index)

RECURSIVE AssignPairs(_, _, _)
AssignPairs(rarity_counts, asset_addresses, asset_index) ==
    IF rarity_counts = <<>> THEN <<>>
    ELSE LET took == TakeAssets(asset_addresses, asset_index,
                                Head(rarity_counts).key, Head(rarity_counts).val)
         IN took \o AssignPairs(Tail(rarity_counts), asset_addresses,
                                asset_index + Len(took))

PreAssignedMode(assets) == Len(PreAssignedRarities(assets)) = Len(assets)

\* mutant: the percentage table is asked for before the mode is looked at
GenerateNftPool_TableFirst(assets, p, s) ==
    IF Falsy(p)
    THEN [exited |-> TRUE, pool |-> <<>>, rng |-> s, shuffled |-> 0, assets |-> assets]
    ELSE IF PreAssignedMode(assets)
         THEN LET sh == Shuffle(s, [i \in DOMAIN assets |-> NFT(assets[i].asset, assets[i].rarity)])
              IN [exited |-> FALSE, pool |-> sh.list, rng |-> sh.rng, shuffled |-> 1,
                  assets |-> assets]
         ELSE LET asset_addresses == [i \in DOMAIN assets |-> assets[i].asset]
                  pairs == AssignPairs(Sorted(RarityCounts(p, Len(assets))), asset_addresses, 0)
                  sh == Shuffle(s, pairs)
              IN [exited |-> FALSE, pool |-> sh.list, rng |-> sh.rng, shuffled |-> 1,
                  assets |-> assets]

\* mutant: in pre-assigned mode the caller's list itself is shuffled in place
GenerateNftPool_ShufflesInput(assets, p, s) ==
    IF PreAssignedMode(assets)
    THEN LET sh == Shuffle(s, assets)
         IN [exited |-> FALSE,
             pool |-> [i \in DOMAIN sh.list |-> NFT(sh.list[i].asset, sh.list[i].rarity)],
             rng |-> sh.rng, shuffled |-> 1, assets |-> sh.list]
    ELSE IF Falsy(p)
         THEN [exited |-> TRUE, pool |-> <<>>, rng |-> s, shuffled |-> 0, assets |-> assets]
         ELSE LET asset_addresses == [i \in DOMAIN assets |-> assets[i].asset]
                  pairs == AssignPairs(Sorted(RarityCounts(p, Len(assets))), asset_addresses, 0)
                  sh == Shuffle(s, pairs)
              IN [exited |-> FALSE, pool |-> sh.list, rng |-> sh.rng, shuffled |-> 1,
                  assets |-> assets]

\* the result of a call: the pool, the generator's state after it and the
\* caller's list after it (nft_pool is a new list, and it is nft_pool that is
\* shuffled), or exited
GenerateNftPool(assets, p, s) ==
    IF PreAssignedMode(assets)
    THEN LET sh == Shuffle(s, [i \in DOMAIN assets |-> NFT(assets[i].asset, assets[i].rarity)])
         IN [exited |-> FALSE, pool |-> sh.list, rng |-> sh.rng, shuffled |-> 1,
             assets |-> assets]
    ELSE IF Falsy(p)
         THEN [exited |-> TRUE, pool |-> <<>>, rng |-> s, shuffled |-> 0, assets |-> assets]
         ELSE LET asset_addresses == [i \in DOMAIN assets |-> assets[i].asset]
                  pairs == AssignPairs(Sorted(RarityCounts(p, Len(assets))), asset_addresses, 0)
                  sh == Shuffle(s, pairs)
              IN [exited |-> FALSE, pool |-> sh.list, rng |-> sh.rng, shuffled |-> 1,
                  assets |-> assets]

(***************************************************************************)
(* NFTAllocator.allocate_nfts                                              *)
(***************************************************************************)
WalletAllocation(w, nfts) == [wallet |-> w, nfts |-> nfts, total_nfts |-> Len(nfts)]

\* mutant: the loop stops one item before the pool's end
RECURSIVE TakeNfts_StopsEarly(_, _, _)
TakeNfts_StopsEarly(pool, nft_index, nft_count) ==
    IF nft_count <= 0 \/ nft_index >= Len(pool) - 1 THEN <<>>
    ELSE <<NFT(pool[nft_index + 1].asset, pool[nft_index + 1].rarity)>>
         \o TakeNfts_StopsEarly(pool, nft_index + 1, nft_count - 1)

\* for _ in range(nft_count): if nft_index >= len(nft_pool): break; append, advance
RECURSIVE TakeNfts(_, _, _)
TakeNfts(pool, nft_index, nft_count) ==
    IF nft_count <= 0 \/ nft_index >= Len(pool) THEN <<>>
    ELSE <<NFT(pool[nft_index + 1].asset, pool[nft_index + 1].rarity)>>
         \o TakeNfts(pool, nft_index + 1, nft_count - 1)

\* mutant: nft_index is not carried from one wallet to the next
RECURSIVE AllocateFrom_NoAdvance(_, _, _)
AllocateFrom_NoAdvance(sorted_wallets, pool, nft_index) ==
    IF sorted_wallets = <<>> THEN <<>>
    ELSE LET wallet_nfts == TakeNfts(pool, nft_index, Head(sorted_wallets).val)
         IN <<WalletAllocation(Head(sorted_wallets).key, wallet_nfts)>>
            \o AllocateFrom_NoAdvance(Tail(sorted_wallets), pool, nft_index)

RECURSIVE AllocateFrom(_, _, _)
AllocateFrom(sorted_wallets, pool, nft_index) ==
    IF sorted_wallets = <<>> THEN <<>>
    ELSE LET wallet_nfts == TakeNfts(pool, nft_index, Head(sorted_wallets).val)
         IN <<WalletAllocation(Head(sorted_wallets).key, wallet_nfts)>>
            \o AllocateFrom(Tail(sorted_wallets), pool, nft_index + Len(wallet_nfts))

AllocateNfts(pool, wallets) == AllocateFrom(Sorted(wallets), pool, 0)

(***************************************************************************)
(* NFTAllocator.validate_allocation                                        *)
(***************************************************************************)
\* eligible_wallets.get(wallet, 0)
RECURSIVE Get(_, _, _)
Get(d, k, default) ==
    IF d = <<>> THEN default
    ELSE IF Head(d).key = k THEN Head(d).val ELSE Get(Tail(d), k, default)

\* sum(d.values())
RECURSIVE SumValues(_)
SumValues(d) == IF d = <<>> THEN 0 ELSE Head(d).val + SumValues(Tail(d))

\* the loop over allocation.nfts: FALSE at the first asset already in unique_ids
RECURSIVE CheckAssets(_, _)
CheckAssets(nfts, unique_ids) ==
    IF nfts = <<>> THEN [ok |-> TRUE, unique_ids |-> unique_ids]
    ELSE IF Head(nfts).asset \in unique_ids
         THEN [ok |-> FALSE, unique_ids |-> unique_ids]
         ELSE CheckAssets(Tail(nfts), unique_ids \cup {Head(nfts).asset})

\* mutant: unique_ids is emptied for every allocation
RECURSIVE CheckAllocations_IdsPerAllocation(_, _, _, _)
CheckAllocations_IdsPerAllocation(allocs, wallets, total_allocated, unique_ids) ==
    IF allocs = <<>> THEN [ok |-> TRUE, total_allocated |-> total_allocated]
    ELSE LET allocation == Head(allocs)
             expected == Get(wallets, allocation.wallet, 0)
         IN IF allocation.total_nfts # expected
            THEN [ok |-> FALSE, total_allocated |-> total_allocated]
            ELSE LET seen == CheckAssets(allocation.nfts, {})
                 IN IF ~seen.ok
                    THEN [ok |-> FALSE, total_allocated |-> total_allocated]
                    ELSE CheckAllocations_IdsPerAllocation(Tail(allocs), wallets,
                                          total_allocated + allocation.total_nfts,
                                          seen.unique_ids)

\* the loop over allocations, returning at the first failed check
RECURSIVE CheckAllocations(_, _, _, _)
CheckAllocations(allocs, wallets, total_allocated, unique_ids) ==
    IF allocs = <<>> THEN [ok |-> TRUE, total_allocated |-> total_allocated]
    ELSE LET allocation == Head(allocs)
             expected == Get(wallets, allocation.wallet, 0)
         IN IF allocation.total_nfts # expected
            THEN [ok |-> FALSE, total_allocated |-> total_allocated]
            ELSE LET seen == CheckAssets(allocation.nfts, unique_ids)
                 IN IF ~seen.ok
                    THEN [ok |-> FALSE, total_allocated |-> total_allocated]
                    ELSE CheckAllocations(Tail(allocs), wallets,
                                          total_allocated + allocation.total_nfts,
                                          seen.unique_ids)

ValidateAllocation(allocs, wallets, total_nfts) ==
    LET loop == CheckAllocations(allocs, wallets, 0, {})
    IN IF ~loop.ok THEN FALSE
       ELSE IF loop.total_allocated # SumValues(wallets) THEN FALSE
       ELSE IF loop.total_allocated > total_nfts THEN FALSE
       ELSE TRUE

(***************************************************************************)
(* save_allocations: the record written to nft_allocation.json             *)
(***************************************************************************)
RECURSIVE SumTotalNfts(_)
SumTotalNfts(allocs) ==
    IF allocs = <<>> THEN 0 ELSE Head(allocs).total_nfts + SumTotalNfts(Tail(allocs))

NotSaved == [written |-> FALSE, allocations |-> <<>>, total_wallets |-> 0,
             total_nfts_allocated |-> 0]

SaveAllocations(allocs) ==
    [written |-> TRUE, allocations |-> allocs, total_wallets |-> Len(allocs),
     total_nfts_allocated |-> SumTotalNfts(allocs)]

(***************************************************************************)
(* The inputs of a run.  Asset addresses only matter up to equality, so an *)
(* asset list names its addresses in order of first appearance.            *)
(***************************************************************************)
MaxOf(S) == CHOOSE m \in S : \A x \in S : x <= m

FirstAppearance(ids) ==
    \A i \in DOMAIN ids :
        ids[i] <= 1 + MaxOf({0} \cup {ids[j] : j \in 1 .. (i - 1)})

AssetLists(rarities) ==
    UNION {{[i \in 1 .. n |-> [asset |-> ids[i], rarity |-> rs[i]]] :
                ids \in {f \in [1 .. n -> 1 .. n] : FirstAppearance(f)},
                rs \in [1 .. n -> rarities]} : n \in 0 .. MaxItems}

\* the dicts with the keys K and values in V, in ascending insertion order
RECURSIVE SeqOfSet(_)
SeqOfSet(K) ==
    IF K = {} THEN <<>>
    ELSE LET k == CHOOSE x \in K : \A y \in K : x <= y
         IN <<k>> \o SeqOfSet(K \ {k})

Reverse(s) == [i \in DOMAIN s |-> s[Len(s) + 1 - i]]

DictsOver(keys, V) ==
    UNION {{[i \in DOMAIN SeqOfSet(K) |-> [key |-> SeqOfSet(K)[i], val |-> f[SeqOfSet(K)[i]]]] :
                f \in [K -> V]} : K \in SUBSET keys}

\* every insertion order of a dict
Orders(d) ==
    {[i \in DOMAIN d |-> d[q[i]]] :
        q \in {r \in [DOMAIN d -> DOMAIN d] : \A i, j \in DOMAIN d : i # j => r[i] # r[j]}}

PercentageTables ==
    {NoTable} \cup {Table(d) : d \in DictsOver(TableRarities, Percentages)}
              \cup {Table(Reverse(d)) : d \in DictsOver(TableRarities, Percentages)}

WalletTables(counts) == UNION {Orders(d) : d \in DictsOver(Wallets, counts)}

(***************************************************************************)
(* main(): the run from the loaded files to the saved allocation           *)
(***************************************************************************)
TypeOK ==
    /\ pc \in {"start", "checked", "seeded", "pooled", "allocated", "validated",
               "verified", "done", "exit"}
    /\ rng \in RngStates
    /\ seedings \in 0 .. 1
    /\ shuffles \in 0 .. 1
    /\ valid \in BOOLEAN
    /\ verdict \in {"none", "passed", "failed", "error"}

\* the state after the files are loaded (lines 419-436); the generator of the
\* random module holds whatever state the process started with
Loaded(assets, tables, wallets, at) ==
    /\ pc = at
    /\ seed \in Seeds
    /\ rng \in PriorStates
    /\ seedings = 0
    /\ shuffles = 0
    /\ nft_assets \in assets
    /\ rarity_percentages \in tables
    /\ eligible_wallets \in wallets
    /\ nft_pool = <<>>
    /\ allocations = <<>>
    /\ valid = FALSE
    /\ saved = NotSaved
    /\ exit_site = "none"
    /\ verdict = "none"

Exit(site) == pc' = "exit" /\ exit_site' = site

\* mutant: only the sum is checked
PreCheck_SumOnly ==
    /\ pc = "start"
    /\ IF SumValues(eligible_wallets) # Len(nft_assets)
       THEN Exit("sum_mismatch")
       ELSE pc' = "checked" /\ exit_site' = exit_site
    /\ UNCHANGED <<verdict, seed, rng, seedings, shuffles, nft_assets, rarity_percentages,
                   eligible_wallets, nft_pool, allocations, valid, saved>>

\* lines 438-467: the requested NFTs must equal the minted ones, every count > 0
PreCheck ==
    /\ pc = "start"
    /\ IF SumValues(eligible_wallets) # Len(nft_assets)
       THEN Exit("sum_mismatch")
       ELSE IF ~(\A i \in DOMAIN eligible_wallets : eligible_wallets[i].val > 0)
            THEN Exit("bad_count")
            ELSE pc' = "checked" /\ exit_site' = exit_site
    /\ UNCHANGED <<verdict, seed, rng, seedings, shuffles, nft_assets, rarity_percentages,
                   eligible_wallets, nft_pool, allocations, valid, saved>>

\* mutant: the seed is stored and the generator is left as it is
NewAllocator_NotSeeded ==
    /\ pc = "checked"
    /\ rng' = rng
    /\ seedings' = seedings + 1
    /\ shuffles' = 0
    /\ pc' = "seeded"
    /\ UNCHANGED <<verdict, seed, nft_assets, rarity_percentages, eligible_wallets,
                   nft_pool, allocations, valid, saved, exit_site>>

\* line 493, NFTAllocator.__init__: random.seed(seed)
NewAllocator ==
    /\ pc = "checked"
    /\ rng' = SeedState(seed)
    /\ seedings' = seedings + 1
    /\ shuffles' = 0
    /\ pc' = "seeded"
    /\ UNCHANGED <<verdict, seed, nft_assets, rarity_percentages, eligible_wallets,
                   nft_pool, allocations, valid, saved, exit_site>>

\* line 497
GeneratePool ==
    /\ pc = "seeded"
    /\ LET r == GenerateNftPool(nft_assets, rarity_percentages, rng)
       IN /\ IF r.exited THEN Exit("no_percentages")
             ELSE pc' = "pooled" /\ exit_site' = exit_site
          /\ nft_pool' = r.pool
          /\ nft_assets' = r.assets
          /\ rng' = r.rng
          /\ shuffles' = shuffles + r.shuffled
    /\ UNCHANGED <<verdict, seed, seedings, rarity_percentages, eligible_wallets,
                   allocations, valid, saved>>

\* line 501
Allocate ==
    /\ pc = "pooled"
    /\ allocations' = AllocateNfts(nft_pool, eligible_wallets)
    /\ pc' = "allocated"
    /\ UNCHANGED <<verdict, seed, rng, seedings, shuffles, nft_assets, rarity_percentages,
                   eligible_wallets, nft_pool, valid, saved, exit_site>>

\* mutant: the validator's result is not looked at
Validate_ResultIgnored ==
    /\ pc = "allocated"
    /\ valid' = ValidateAllocation(allocations, eligible_wallets, Len(nft_assets))
    /\ pc' = "validated"
    /\ UNCHANGED <<verdict, seed, rng, seedings, shuffles, nft_assets, rarity_percentages,
                   eligible_wallets, nft_pool, allocations, saved, exit_site>>

\* lines 503-506
Validate ==
    /\ pc = "allocated"
    /\ valid' = ValidateAllocation(allocations, eligible_wallets, Len(nft_assets))
    /\ IF valid' THEN pc' = "validated" /\ exit_site' = exit_site
       ELSE Exit("validation_failed")
    /\ UNCHANGED <<verdict, seed, rng, seedings, shuffles, nft_assets, rarity_percentages,
                   eligible_wallets, nft_pool, allocations, saved>>

AllocatedAssets(allocs) ==
    UNION {{allocs[i].nfts[j].asset : j \in DOMAIN allocs[i].nfts} : i \in DOMAIN allocs}

OriginalAssets(assets) == {assets[i].asset : i \in DOMAIN assets}

\* lines 508-538: the allocated assets are exactly the assets of the file
FinalVerification ==
    /\ pc = "validated"
    /\ LET missing == OriginalAssets(nft_assets) \ AllocatedAssets(allocations)
           extra == AllocatedAssets(allocations) \ OriginalAssets(nft_assets)
       IN IF missing # {} THEN Exit("missing")
          ELSE IF extra # {} THEN Exit("extra")
          ELSE pc' = "verified" /\ exit_site' = exit_site
    /\ UNCHANGED <<verdict, seed, rng, seedings, shuffles, nft_assets, rarity_percentages,
                   eligible_wallets, nft_pool, allocations, valid, saved>>

\* line 546
Save ==
    /\ pc = "verified"
    /\ saved' = SaveAllocations(allocations)
    /\ pc' = "done"
    /\ UNCHANGED <<verdict, seed, rng, seedings, shuffles, nft_assets, rarity_percentages,
                   eligible_wallets, nft_pool, allocations, valid, exit_site>>

(***************************************************************************)
(* verify.py: verify_allocation over config.json, eligible_wallets.json    *)
(* and the nft_allocation.json the allocator saved.  A JSON object is a    *)
(* record; reading a key it does not hold raises KeyError, which the       *)
(* function's "except Exception" turns into the error outcome.             *)
(***************************************************************************)
HasKey(obj, k) == k \in DOMAIN obj

\* config.json as the verifier reads it: the keys it holds
Config(has_seed, has_total_nfts, total_nfts, percentages) ==
    [has_seed |-> has_seed, has_total_nfts |-> has_total_nfts,
     total_nfts |-> total_nfts, rarity_percentages |-> percentages]

\* every nft object of every allocation, in order (lines 66-68, 90-91)
AllNfts(allocs) == Flatten([i \in DOMAIN allocs |-> allocs[i].nfts])

\* "all checks passed" after check 1 and check 2 (lines 38-58)
WalletChecks(wallets, allocs) ==
    /\ \A i \in DOMAIN wallets :
          wallets[i].key \in {allocs[j].wallet : j \in DOMAIN allocs}
    /\ \A j \in DOMAIN allocs :
          Get(wallets, allocs[j].wallet, 0) = allocs[j].total_nfts

\* 0 is "passed" (line 109), 1 is "failed" (line 114) or "error" (line 128)
VerifyAllocation(config, wallets, allocation_data) ==
    LET allocs == allocation_data.allocations
        nfts == AllNfts(allocs)
    IN IF ~config.has_seed THEN "error"
       ELSE IF \E i \in DOMAIN nfts : ~HasKey(nfts[i], "id") THEN "error"
       ELSE LET all_nft_ids == [i \in DOMAIN nfts |-> nfts[i].id]
                unique == NoDuplicates(all_nft_ids)
            IN IF ~config.has_total_nfts THEN "error"
               ELSE LET in_range == \A i \in DOMAIN all_nft_ids :
                                        ~(all_nft_ids[i] < 1 \/ all_nft_ids[i] > config.total_nfts)
                    IN IF \E i \in DOMAIN nfts : ~HasKey(nfts[i], "rarity") THEN "error"
                       ELSE IF nfts # <<>> /\ ~config.rarity_percentages.present THEN "error"
                       ELSE IF WalletChecks(wallets, allocs) /\ unique /\ in_range
                            THEN "passed"
                            ELSE "failed"

\* python3 verify.py, run on the files of a finished allocation
Verify ==
    /\ pc = "done"
    /\ verdict = "none"
    /\ \E has_seed, has_total_nfts \in BOOLEAN :
          verdict' = VerifyAllocation(
                        Config(has_seed, has_total_nfts, Len(nft_assets), rarity_percentages),
                        eligible_wallets, saved)
    /\ UNCHANGED <<pc, seed, rng, seedings, shuffles, nft_assets, rarity_percentages,
                   eligible_wallets, nft_pool, allocations, valid, saved, exit_site>>

\* asset files: every asset unlabeled, or every asset labeled
RunAssets == AssetLists({None}) \cup AssetLists({1})

\* config.json without rarity_percentages, with an empty table, with tables
\* summing to 100 (inserted out of order) and to more than 100
RunTables ==
    {NoTable, Table(<<>>),
     Table(<<[key |-> 2, val |-> 50], [key |-> 1, val |-> 50]>>),
     Table(<<[key |-> 1, val |-> 100], [key |-> 2, val |-> 100], [key |-> 3, val |-> 50]>>)}

Init == Loaded(RunAssets, RunTables, WalletTables(0 .. MaxCount), "start")

Next ==
    \/ PreCheck
    \/ NewAllocator
    \/ GeneratePool
    \/ Allocate
    \/ Validate
    \/ FinalVerification
    \/ Save
    \/ Verify

Spec == Init /\ [][Next]_vars

(***************************************************************************)
(* The Pool Builder alone: NFTAllocator(seed).generate_nft_pool(assets,    *)
(* rarity_percentages) on any asset list and any table.                    *)
(***************************************************************************)
InitPool ==
    Loaded(AssetLists({None} \cup AssetRarities), PercentageTables, {<<>>}, "checked")

NextPool ==
    \/ NewAllocator
    \/ GeneratePool

SpecPool == InitPool /\ [][NextPool]_vars

(***************************************************************************)
(* The core operations called in main's order on entitlement tables that   *)
(* did not go through main's pre-check.                                    *)
(***************************************************************************)
InitCore == Loaded(RunAssets, RunTables, WalletTables(0 .. MaxCount), "checked")

NextCore ==
    \/ NewAllocator
    \/ GeneratePool
    \/ Allocate
    \/ Validate
    \/ FinalVerification
    \/ Save

SpecCore == InitCore /\ [][NextCore]_vars

(***************************************************************************)
(* The Validator alone: validate_allocation and the caller's steps after   *)
(* it, on allocation lists that need not come from allocate_nfts.          *)
(***************************************************************************)
\* lengths of the allocation lists handed to the validator
AllocationListLengths == 0 .. 2
ValidatedWallets == {1, 2}
ValidatedAssets == {1, 2}

SeqsUpTo(S, n) == UNION {[1 .. k -> S] : k \in 0 .. n}

AnyAllocations ==
    UNION {[1 .. k ->
              {[wallet |-> w, nfts |-> [i \in DOMAIN ids |-> NFT(ids[i], 1)], total_nfts |-> t] :
                  w \in ValidatedWallets, ids \in SeqsUpTo(ValidatedAssets, MaxCount),
                  t \in 0 .. MaxCount}] : k \in AllocationListLengths}

UnlabeledAssets == {[i \in 1 .. n |-> [asset |-> i, rarity |-> None]] : n \in 0 .. MaxItems}

InitValidate ==
    /\ pc = "allocated"
    /\ seed \in {1}
    /\ rng \in {0}
    /\ seedings = 1
    /\ shuffles = 1
    /\ nft_assets \in UnlabeledAssets
    /\ rarity_percentages = NoTable
    /\ eligible_wallets \in DictsOver(ValidatedWallets, 0 .. MaxCount)
    /\ nft_pool = <<>>
    /\ allocations \in AnyAllocations
    /\ valid = FALSE
    /\ saved = NotSaved
    /\ exit_site = "none"
    /\ verdict = "none"

NextValidate ==
    \/ Validate
    \/ FinalVerification
    \/ Save

SpecValidate == InitValidate /\ [][NextValidate]_vars

(***************************************************************************)
(* Properties                                                              *)
(***************************************************************************)
AllPositive(wallets) == \A i \in DOMAIN wallets : wallets[i].val > 0

\* allocate_nfts has returned
AfterAllocate ==
    \/ pc \in {"allocated", "validated", "verified", "done"}
    \/ pc = "exit" /\ exit_site \in {"validation_failed", "missing", "extra"}

\* validate_allocation has returned
AfterValidate ==
    \/ pc \in {"validated", "verified", "done"}
    \/ pc = "exit" /\ exit_site \in {"validation_failed", "missing", "extra"}

\* the asset ids of all allocations, in allocation order
AllocatedIds(allocs) ==
    Flatten([i \in DOMAIN allocs |->
                [j \in DOMAIN allocs[i].nfts |-> allocs[i].nfts[j].asset]])

AssetIds(assets) == [i \in DOMAIN assets |-> assets[i].asset]

\* C1: the pool built by NFTAllocator(seed).generate_nft_pool(assets, table) is
\* a function of the seed, the asset list and the table alone: whatever state
\* the generator held before, the pool is the one computed from the seed's
\* state.
C1_Determinism ==
    pc = "pooled" =>
        nft_pool = GenerateNftPool(nft_assets, rarity_percentages, SeedState(seed)).pool

\* a pool of three assets that the shuffle reordered, built after the generator
\* started in a state other than the seed's
C1_Witness ==
    /\ pc = "pooled"
    /\ Len(nft_pool) = 3
    /\ NoDuplicates(AssetIds(nft_assets))
    /\ AssetIds(nft_pool) # AssetIds(nft_assets)

\* C2: with entitlements all > 0 that sum to the pool size, the allocation
\* counts sum to the sum of the entitlements and to the pool size, and every
\* allocation's count is its recipient's entitlement.
C2_Conservation ==
    (AfterAllocate /\ AllPositive(eligible_wallets)
        /\ SumValues(eligible_wallets) = Len(nft_pool)) =>
        /\ SumTotalNfts(allocations) = SumValues(eligible_wallets)
        /\ SumTotalNfts(allocations) = Len(nft_pool)
        /\ \A i \in DOMAIN allocations :
              /\ allocations[i].total_nfts = Get(eligible_wallets, allocations[i].wallet, 0)
              /\ allocations[i].total_nfts = Len(allocations[i].nfts)

\* two recipients share a pool of three
C2_Witness ==
    /\ pc = "allocated"
    /\ AllPositive(eligible_wallets)
    /\ SumValues(eligible_wallets) = Len(nft_pool)
    /\ Len(nft_pool) = 3
    /\ Len(allocations) = 2

\* C3 as stated: for any asset list, no asset id appears twice across the
\* allocations.
C3_AnyItemList == AfterAllocate => NoDuplicates(AllocatedIds(allocations))

\* C3: when the ids of the asset list are pairwise distinct, no asset id
\* appears twice across the allocations, whatever the percentage table and the
\* entitlement table.
C3_Uniqueness ==
    (AfterAllocate /\ NoDuplicates(AssetIds(nft_assets))) =>
        NoDuplicates(AllocatedIds(allocations))

\* three distinct assets handed to two recipients
C3_Witness ==
    /\ pc = "allocated"
    /\ NoDuplicates(AssetIds(nft_assets))
    /\ Len(AllocatedIds(allocations)) = 3
    /\ \E i, j \in DOMAIN allocations :
          i # j /\ allocations[i].nfts # <<>> /\ allocations[j].nfts # <<>>

\* C4: in a run of main (entitlements all > 0, summing to the number of
\* assets) the set of allocated asset ids is the set of ids of the asset list,
\* so the final verification never exits.
C4_Completeness ==
    /\ AfterAllocate =>
          AllocatedAssets(allocations) = OriginalAssets(nft_assets)
    /\ exit_site \notin {"missing", "extra"}

\* a percentage-mode run of three assets that reached the save
C4_Witness ==
    /\ pc = "done"
    /\ ~PreAssignedMode(nft_assets)
    /\ Len(nft_assets) = 3
    /\ saved.written

MixedLabeling(assets) ==
    /\ Len(PreAssignedRarities(assets)) > 0
    /\ Len(PreAssignedRarities(assets)) < Len(assets)

\* C5 as stated: with at least one but not all assets labeled, the pool
\* builder exits and produces no pool, with or without a percentage table.
C5_MixedRejected ==
    (MixedLabeling(nft_assets) /\ pc \in {"pooled", "exit"}) =>
        (pc = "exit" /\ nft_pool = <<>>)

PoolCount(r) == Cardinality({i \in DOMAIN nft_pool : nft_pool[i].rarity = r})

TableKeys == {rarity_percentages.table[i].key : i \in DOMAIN rarity_percentages.table}

Floor(k) == (Len(nft_assets) * Get(rarity_percentages.table, k, 0)) \div 100

RECURSIVE SumPoolCount(_)
SumPoolCount(S) ==
    IF S = {} THEN 0
    ELSE LET x == CHOOSE y \in S : TRUE IN PoolCount(x) + SumPoolCount(S \ {x})

RECURSIVE SumFloor(_)
SumFloor(S) ==
    IF S = {} THEN 0
    ELSE LET x == CHOOSE y \in S : TRUE IN Floor(x) + SumFloor(S \ {x})

\* the pool's labels follow the table: floor for every rarity but the last in
\* sorted order, the remainder for the last, every asset labeled
RoundedCounts ==
    LET last == MaxOf(TableKeys)
    IN /\ \A k \in TableKeys \ {last} : PoolCount(k) = Floor(k)
       /\ PoolCount(last) = Len(nft_assets) - SumPoolCount(TableKeys \ {last})
       /\ SumPoolCount(TableKeys) = Len(nft_assets)
       /\ Len(nft_pool) = Len(nft_assets)

PercentagePool == pc = "pooled" /\ ~PreAssignedMode(nft_assets)

PreCheckFails ==
    \/ SumValues(eligible_wallets) # Len(nft_assets)
    \/ ~AllPositive(eligible_wallets)

CountsMatch(allocs, wallets) ==
    \A i \in DOMAIN allocs : allocs[i].total_nfts = Get(wallets, allocs[i].wallet, 0)

FourChecks(allocs, wallets, total_nfts) ==
    /\ CountsMatch(allocs, wallets)
    /\ NoDuplicates(AllocatedIds(allocs))
    /\ SumTotalNfts(allocs) = SumValues(wallets)
    /\ SumTotalNfts(allocs) <= total_nfts

\* C8: validate_allocation succeeds exactly when the four checks hold, on any
\* allocation list.
C8_ValidateIff ==
    AfterValidate => (valid <=> FourChecks(allocations, eligible_wallets, Len(nft_assets)))

\* a list that passes the count checks and fails on a duplicate across two
\* allocations only
C8_Witness ==
    /\ AfterValidate
    /\ ~valid
    /\ Len(allocations) = 2
    /\ CountsMatch(allocations, eligible_wallets)
    /\ SumTotalNfts(allocations) = SumValues(eligible_wallets)
    /\ SumTotalNfts(allocations) <= Len(nft_assets)
    /\ \A i \in DOMAIN allocations : NoDuplicates(AssetIds(allocations[i].nfts))

\* the number of items handed to the recipients before the k-th
Cursor(allocs, k) == Len(AllocatedIds(SubSeq(allocs, 1, k - 1)))

\* C9: allocate_nfts returns one allocation per recipient in ascending order
\* of the recipient, whatever the table's insertion order; the k-th holds the
\* pool's items from the cursor on, as many as the entitlement or as remain;
\* the cursor never passes the pool's end.
C9_Slices ==
    AfterAllocate =>
        /\ Len(allocations) = Len(eligible_wallets)
        /\ {allocations[i].wallet : i \in DOMAIN allocations}
              = {eligible_wallets[i].key : i \in DOMAIN eligible_wallets}
        /\ \A i, j \in DOMAIN allocations :
              i < j => allocations[i].wallet < allocations[j].wallet
        /\ \A k \in DOMAIN allocations :
              LET cursor == Cursor(allocations, k)
                  n == Get(eligible_wallets, allocations[k].wallet, 0)
              IN /\ cursor <= Len(nft_pool)
                 /\ cursor <= Cursor(allocations, k + 1)
                 /\ allocations[k].nfts
                       = SubSeq(nft_pool, cursor + 1, Min(cursor + n, Len(nft_pool)))
                 /\ allocations[k].total_nfts = Len(allocations[k].nfts)

\* a table inserted out of order whose last recipient is cut short
C9_Witness ==
    /\ pc = "allocated"
    /\ Len(eligible_wallets) = 3
    /\ eligible_wallets[1].key > eligible_wallets[2].key
    /\ Len(nft_pool) = 3
    /\ allocations[1].total_nfts = 2
    /\ allocations[2].total_nfts = 1
    /\ allocations[3].total_nfts = 0
    /\ Get(eligible_wallets, allocations[2].wallet, 0) = 2

\* an allocation holds fewer items than its recipient's entitlement
Shortfall ==
    \E i \in DOMAIN allocations :
        allocations[i].total_nfts < Get(eligible_wallets, allocations[i].wallet, 0)

\* C10: after a shortfall allocate_nfts has returned normally, the validator
\* fails on its result, and the run exits there without saving.
C10_ShortfallFatal ==
    Shortfall =>
        /\ pc = "allocated" \/ (pc = "exit" /\ exit_site = "validation_failed")
        /\ Len(allocations) = Len(eligible_wallets)
        /\ ~ValidateAllocation(allocations, eligible_wallets, Len(nft_assets))
        /\ pc = "exit" => ~valid
        /\ ~saved.written

\* the run stopped at the validator after a shortfall
C10_Witness ==
    /\ Shortfall
    /\ pc = "exit"
    /\ exit_site = "validation_failed"
    /\ Len(nft_pool) > 0

\* C11: in percentage mode without a percentage table the pool builder exits
\* with the configuration error and returns no pool; in pre-assigned mode it
\* never exits and the pool is the one built without any table.
C11_TableNeeded ==
    pc \in {"pooled", "exit"} =>
        /\ (~PreAssignedMode(nft_assets) /\ ~rarity_percentages.present) =>
              (pc = "exit" /\ exit_site = "no_percentages" /\ nft_pool = <<>>)
        /\ PreAssignedMode(nft_assets) =>
              /\ pc = "pooled"
              /\ nft_pool = GenerateNftPool(nft_assets, NoTable, SeedState(seed)).pool
              /\ \A i \in DOMAIN nft_pool :
                    \E j \in DOMAIN nft_assets :
                        nft_pool[i] = NFT(nft_assets[j].asset, nft_assets[j].rarity)

\* three labeled assets and a table naming another rarity: the table is ignored
C11_Witness ==
    /\ pc = "pooled"
    /\ PreAssignedMode(nft_assets)
    /\ Len(nft_assets) = 3
    /\ ~Falsy(rarity_percentages)
    /\ \A i \in DOMAIN nft_pool : nft_pool[i].rarity \notin TableKeys

CountId(items, a) == Cardinality({i \in DOMAIN items : items[i].asset = a})

\* C12 as stated: with a non-empty table the pool is as long as the asset list
\* and holds each id of the asset list exactly once, for every asset list.
C12_EachIdOnce ==
    (pc = "pooled" /\ ~Falsy(rarity_percentages)) =>
        /\ Len(nft_pool) = Len(nft_assets)
        /\ \A a \in OriginalAssets(nft_assets) : CountId(nft_pool, a) = 1

\* C12: with a non-empty table the pool is as long as the asset list and holds
\* each id as often as the asset list does: exactly once when the ids of the
\* asset list are pairwise distinct.
C12_PoolIds ==
    (pc = "pooled" /\ ~Falsy(rarity_percentages)) =>
        /\ Len(nft_pool) = Len(nft_assets)
        /\ \A a \in OriginalAssets(nft_assets) \cup OriginalAssets(nft_pool) :
              CountId(nft_pool, a) = CountId(nft_assets, a)
        /\ NoDuplicates(AssetIds(nft_assets)) => NoDuplicates(AssetIds(nft_pool))

\* three distinct unlabeled assets under a table whose percentages sum to 200
C12_Witness ==
    /\ pc = "pooled"
    /\ ~PreAssignedMode(nft_assets)
    /\ Len(nft_assets) = 3
    /\ NoDuplicates(AssetIds(nft_assets))
    /\ Cardinality(TableKeys) = 2
    /\ \A k \in TableKeys : Get(rarity_percentages.table, k, 0) = 100

CountPair(items, a, r) ==
    Cardinality({i \in DOMAIN items : items[i].asset = a /\ items[i].rarity = r})

PairsOf(items) == {<<items[i].asset, items[i].rarity>> : i \in DOMAIN items}

PreAssignedPool ==
    (pc = "pooled" /\ PreAssignedMode(nft_assets)) =>
        /\ Len(nft_pool) = Len(nft_assets)
        /\ \A pr \in PairsOf(nft_assets) \cup PairsOf(nft_pool) :
              CountPair(nft_pool, pr[1], pr[2]) = CountPair(nft_assets, pr[1], pr[2])
        /\ seedings = 1
        /\ shuffles = 1

\* C13: in pre-assigned mode the pool is a permutation of the (id, rarity)
\* pairs of the asset list, built with one seeding and one shuffle, and no
\* step of the pool builder changes the caller's asset list.
C13_PreAssigned ==
    /\ []PreAssignedPool
    /\ [][pc = "seeded" => nft_assets' = nft_assets]_vars

\* three distinct assets of two rarities come out in another order
C13_Witness ==
    /\ pc = "pooled"
    /\ PreAssignedMode(nft_assets)
    /\ Len(nft_assets) = 3
    /\ NoDuplicates(AssetIds(nft_assets))
    /\ Cardinality({nft_assets[i].rarity : i \in DOMAIN nft_assets}) = 2
    /\ nft_pool # [i \in DOMAIN nft_assets |-> NFT(nft_assets[i].asset, nft_assets[i].rarity)]
    /\ shuffles = 1

\* C14: on every allocation record the allocator saved, with the same
\* entitlement table and config, verify_allocation ends with all checks passed.
C14_VerifierAccepts == verdict # "none" => verdict = "passed"

====
